---- MODULE Spec2Model ----
(***************************************************************************)
(* A model of persist::Persist<NVMem, TData, datatype_version> (persist.h) *)
(* over a flash-like NVMem region, together with the CRC-16 engine of      *)
(* inc/crc16.h.  The region is held block by block; every block is the     *)
(* byte image of the packed struct Block (data, sequence_n, crc, padding). *)
(***************************************************************************)
EXTENDS Integers, Sequences, FiniteSets, TLC

(***************************************************************************)
(* Template parameters of the instantiation that is checked.               *)
(***************************************************************************)
\* NVMem::kSize, NVMem::kEraseGranularity, NVMem::kWriteGranularity and
\* NVMem::kFillByte of the driver; sizeof(TData); datatype_version.
kSize == 24
kEraseGranularity == 12
kWriteGranularity == 2
kFillByte == 255
SizeofTData == 1
datatype_version == 1

\* sizeof(TSequenceNum) and sizeof(TCRC): both uint16_t.
SizeofTSequenceNum == 2
SizeofTCRC == 2
\* std::numeric_limits<TSequenceNum>::max()
TSequenceNumMax == 65535
\* Number of values of a uint16_t.
Two16 == 65536

(***************************************************************************)
(* Bounds of the model.                                                    *)
(***************************************************************************)
\* Records passed to Save are the bytes 0..MaxData.
MaxData == 2
\* Number of Save calls that reach NVMem Write or Erase in one behaviour.
MaxSaves == 4
\* Number of failed driver calls and of losses of power in one behaviour.
MaxFaults == 2
\* A behaviour starts on a virgin region, or on the region that Filled or
\* NearWrap successful Saves have left.
Filled == 6
NearWrap == 65534

Min(a, b) == IF a < b THEN a ELSE b

(***************************************************************************)
(* 16-bit arithmetic.                                                      *)
(***************************************************************************)
RECURSIVE XorBits(_, _)
\* Bitwise exclusive or of two naturals, bit by bit.
XorBits(a, b) ==
    IF a = 0 THEN b
    ELSE IF b = 0 THEN a
    ELSE ((a + b) % 2) + 2 * XorBits(a \div 2, b \div 2)

\* The exclusive or of two nibbles, tabulated.
XorNibble == [a \in 0..15 |-> [b \in 0..15 |-> XorBits(a, b)]]

\* The ^ of C++ on two uint16_t values, nibble by nibble.
Xor(a, b) ==
    XorNibble[a % 16][b % 16]
    + 16 * XorNibble[(a \div 16) % 16][(b \div 16) % 16]
    + 256 * XorNibble[(a \div 256) % 16][(b \div 256) % 16]
    + 4096 * XorNibble[a \div 4096][b \div 4096]

\* x << n truncated to uint16_t.
Shl16(x, n) == (x * (2 ^ n)) % Two16

(***************************************************************************)
(* inc/crc16.h                                                             *)
(***************************************************************************)
kPolynomial == 4129  \* 0x1021

RECURSIVE TableLoop(_, _)
TableLoop(x, j) ==
    IF j = 8 THEN x
    ELSE TableLoop(IF x >= 32768 THEN Xor(Shl16(x, 1), kPolynomial)
                                 ELSE Shl16(x, 1), j + 1)

\* Crc16::ComputeTableEntry: x is a uint16_t.
ComputeTableEntry(x) == TableLoop(Shl16(x, 8), 0)

\* Crc16::Init fills the two nibble tables.
ltable == [i \in 0..15 |-> ComputeTableEntry(i)]
htable == [i \in 0..15 |-> ComputeTableEntry(i * 16)]

\* One iteration of the loop of Crc16::Process: fold one byte into crc.
ProcessByte(crc, byte) ==
    LET index == Xor(crc \div 256, byte)
    IN  Xor(Xor(Shl16(crc, 8), ltable[index % 16]), htable[index \div 16])

RECURSIVE ProcessFrom(_, _, _)
ProcessFrom(crc, bytes, k) ==
    IF k > Len(bytes) THEN crc
    ELSE ProcessFrom(ProcessByte(crc, bytes[k]), bytes, k + 1)

\* Crc16::Seed(seed) followed by Crc16::Process(bytes, Len(bytes)).
Process(seed, bytes) == ProcessFrom(seed, bytes, 1)

(***************************************************************************)
(* Region geometry (persist.h, protected constants).                       *)
(***************************************************************************)
PadSize(unpadded_size, granularity) ==
    LET rem == unpadded_size % granularity
    IN  (granularity - rem) % granularity

kBlockPaddingSize ==
    PadSize(SizeofTData + SizeofTSequenceNum + SizeofTCRC, kWriteGranularity)
kBlockSize == SizeofTData + SizeofTSequenceNum + SizeofTCRC + kBlockPaddingSize
kPageSize == kBlockSize + PadSize(kBlockSize, kEraseGranularity)
kBlocksPerPage == kPageSize \div kBlockSize
kNumBlocks ==
    Min((kSize \div kPageSize) * kBlocksPerPage, TSequenceNumMax \div 2 + 1)
kNumPages == (kNumBlocks + kBlocksPerPage - 1) \div kBlocksPerPage

Blocks == 0..(kNumBlocks - 1)
Pages == 0..(kNumPages - 1)

\* Persist::BlockLocation
BlockLocation(block_n) ==
    LET page_n == block_n \div kBlocksPerPage
    IN  page_n * kPageSize + (block_n - page_n * kBlocksPerPage) * kBlockSize

\* The page a block lies in (block_n / kBlocksPerPage in Save and BlockLocation).
PageOf(block_n) == block_n \div kBlocksPerPage

(***************************************************************************)
(* Block images.                                                           *)
(***************************************************************************)
\* The bytes of a uint16_t in memory (little-endian host).
Bytes16(x) == <<x % 256, x \div 256>>

FillWord == kFillByte + 256 * kFillByte
FillPadding == [k \in 1..kBlockPaddingSize |-> kFillByte]

\* struct Block: data is one byte here (SizeofTData = 1).
MkBlock(d, sn, c, pad) ==
    [data |-> d, sequence_n |-> sn, crc |-> c, padding |-> pad]

\* A seed that does not depend on the datatype_version.
CrcSeedFixed(v) == TSequenceNumMax

\* Persist::GetCRC: the version-derived seed, then sizeof(TData) +
\* sizeof(TSequenceNum) bytes of the block.
CrcSeed(v) == v + 256 * (255 - v)
CrcOf(v, d, sn) == Process(CrcSeed(v), <<d>> \o Bytes16(sn))

\* CrcOf for datatype_version, tabulated once for the records and the
\* sequence numbers next to 0 and to the wrap; GetCRCv computes the others.
CacheData == (0..15) \cup {kFillByte}
CacheSeqs == (0..63) \cup ((Two16 - 64)..(Two16 - 1))
CrcCache ==
    [d \in CacheData |-> [sn \in CacheSeqs |-> CrcOf(datatype_version, d, sn)]]

GetCRCv(v, blk) ==
    IF v = datatype_version /\ blk.data \in CacheData /\ blk.sequence_n \in CacheSeqs
    THEN CrcCache[blk.data][blk.sequence_n]
    ELSE CrcOf(v, blk.data, blk.sequence_n)
GetCRC(blk) == GetCRCv(datatype_version, blk)

\* The test of Reset on a block that was read: block_.crc == GetCRC(block_).
CrcOk(blk) == blk.crc = GetCRC(blk)

\* A block after an erase: every byte is kFillByte.
ErasedBlock == MkBlock(kFillByte, FillWord, FillWord, FillPadding)

\* A block of which the data and the sequence number reached the medium and
\* the crc did not: what a write leaves when it is cut short, and what an
\* interrupted erase leaves of a block whose crc bytes it cleared first.
TornImage(img) == [img EXCEPT !.crc = FillWord]

(***************************************************************************)
(* The NVMem driver (inc/nvmem_template.h), as a flash: a block is         *)
(* writable when all its bytes are kFillByte.                              *)
(***************************************************************************)
\* The block that starts at a location handed to the driver.
BlockAt(location) == CHOOSE i \in Blocks : BlockLocation(i) = location

\* The blocks that lie in [location, location + size).
BlocksIn(location, size) ==
    {i \in Blocks : /\ location <= BlockLocation(i)
                    /\ BlockLocation(i) + kBlockSize <= location + size}

NvRead(m, location) == m[BlockAt(location)]
NvWritable(m, location) == m[BlockAt(location)] = ErasedBlock
NvWrite(m, location, blk) == [m EXCEPT ![BlockAt(location)] = blk]
NvErase(m, location, size) ==
    [i \in Blocks |-> IF i \in BlocksIn(location, size) THEN ErasedBlock ELSE m[i]]

\* What is left of a block by an Erase that does not run to its end.
EraseOutcomes == {"intact", "erased", "torn"}
AfterCutErase(img, o) ==
    IF o = "erased" THEN ErasedBlock
    ELSE IF o = "torn" THEN TornImage(img)
    ELSE img
\* "torn" is a third outcome only where it yields a CRC-invalid image that is
\* neither the old image nor the erased one.
CutEraseOk(img, o) ==
    o = "torn" => /\ TornImage(img) # img
                  /\ TornImage(img) # ErasedBlock
                  /\ ~CrcOk(TornImage(img))
NvEraseCut(m, location, size, part) ==
    [i \in Blocks |-> IF i \in BlocksIn(location, size)
                      THEN AfterCutErase(m[i], part[i]) ELSE m[i]]

\* What is left of the target block by a Write that fails or is cut.
WriteOutcomes == {"none", "torn", "complete"}
NvWriteCut(m, location, blk, o) ==
    IF o = "complete" THEN NvWrite(m, location, blk)
    ELSE IF o = "torn" THEN NvWrite(m, location, TornImage(blk))
    ELSE m

(***************************************************************************)
(* Persist: private helpers.                                               *)
(***************************************************************************)
SUCCESS == "SUCCESS"
FAIL_NO_DATA == "FAIL_NO_DATA"
FAIL_ERASE == "FAIL_ERASE"
FAIL_WRITE == "FAIL_WRITE"
FAIL_READ == "FAIL_READ"

\* An acceptance test that compares the sequence numbers as plain integers.
\* An acceptance test that compares the raw values only.
NewerInRaw(num_blocks, act, sn, seq) == act = -1 \/ sn > seq

\* The condition of the if of Reset in a persister of num_blocks blocks, for
\* a CRC-valid block of sequence number sn against the best so far (block
\* act, sequence number seq); the operands are promoted to int.
NewerIn(num_blocks, act, sn, seq) ==
    \/ act = -1
    \/ (sn > seq /\ sn - seq < num_blocks)
    \/ (sn < seq /\ seq - sn >= num_blocks)

NewerNoWrap(act, sn, seq) == act = -1 \/ sn > seq

\* The acceptance test of Reset for a CRC-valid block with sequence number sn
\* against the best candidate so far (block act, sequence number seq).
Newer(act, sn, seq) == NewerIn(kNumBlocks, act, sn, seq)

\* The body of the for loop of Reset for block i, read as blk: best holds
\* active_block_n_ and sequence_.
ResetStep(best, i, blk) ==
    IF CrcOk(blk) /\ Newer(best.active, blk.sequence_n, best.sequence)
    THEN [active |-> i, sequence |-> blk.sequence_n]
    ELSE best

RECURSIVE ResetScan(_, _, _, _)
\* The for loop of Reset from block i on; failAt is the Read call that
\* returns false (-1: none).
ResetScan(m, i, best, failAt) ==
    IF i = kNumBlocks
    THEN [active |-> best.active, sequence |-> best.sequence,
          failed |-> FALSE, reads |-> i]
    ELSE IF failAt = i
    THEN [active |-> -1, sequence |-> best.sequence,
          failed |-> TRUE, reads |-> i + 1]
    ELSE ResetScan(m, i + 1, ResetStep(best, i, NvRead(m, BlockLocation(i))),
                   failAt)

\* A Reset that leaves in the buffer the block its loop read last.
ResetBufferNoReRead(m, buf, failAt, s) ==
    IF s.failed /\ s.reads = 1 THEN buf
    ELSE IF s.failed THEN NvRead(m, BlockLocation(s.reads - 2))
    ELSE NvRead(m, BlockLocation(kNumBlocks - 1))

\* The block buffer at the end of Reset, s being the outcome of the loop: the
\* re-read active block, or the block of the last Read that succeeded (a
\* Read that fails leaves the buffer as it was).
ResetBuffer(m, buf, failAt, s) ==
    IF s.failed
    THEN (IF s.reads = 1 THEN buf ELSE NvRead(m, BlockLocation(s.reads - 2)))
    ELSE IF s.active # -1 /\ failAt # kNumBlocks
    THEN NvRead(m, BlockLocation(s.active))
    ELSE NvRead(m, BlockLocation(kNumBlocks - 1))

\* Reset after its for loop: the re-read of the active block and the result.
ResetEnd(m, buf, failAt, s) ==
    [active   |-> IF s.failed \/ (s.active # -1 /\ failAt = kNumBlocks)
                  THEN -1 ELSE s.active,
     sequence |-> s.sequence,
     block    |-> ResetBuffer(m, buf, failAt, s),
     result   |-> IF s.failed \/ (s.active # -1 /\ failAt = kNumBlocks)
                  THEN FAIL_READ ELSE SUCCESS,
     reads    |-> IF ~s.failed /\ s.active # -1 THEN s.reads + 1 ELSE s.reads]

\* Persist::Reset on medium m with block buffer buf.
Reset(m, buf, failAt) ==
    ResetEnd(m, buf, failAt,
             ResetScan(m, 0, [active |-> -1, sequence |-> 0], failAt))

RECURSIVE Probe(_, _, _, _)
\* The do-while loop of NextWritableBlock; n counts the Writable calls.
Probe(m, next_block_n, current_block_n, n) ==
    IF \/ NvWritable(m, BlockLocation((next_block_n + 1) % kNumBlocks))
       \/ (next_block_n + 1) % kNumBlocks = current_block_n
    THEN [block |-> (next_block_n + 1) % kNumBlocks, probes |-> n + 1]
    ELSE Probe(m, (next_block_n + 1) % kNumBlocks, current_block_n, n + 1)

\* A return statement that hands out the block where the loop ended even
\* when that is the current block.
ProbeResultAny(current_block_n, r) == r

\* A return statement that reports no writable block, whatever the loop
\* found.
ProbeResultNone(current_block_n, r) == [block |-> -1, probes |-> r.probes]

\* The return statement of NextWritableBlock, r being where the loop ended.
ProbeResult(current_block_n, r) ==
    [block |-> IF r.block = current_block_n THEN -1 ELSE r.block,
     probes |-> r.probes]

\* NextWritableBlock from a current block that is not -1.
ProbeFrom(m, current_block_n) ==
    ProbeResult(current_block_n, Probe(m, current_block_n, current_block_n, 0))

\* Persist::NextWritableBlock
NextWritableBlock(m, current_block_n) ==
    ProbeFrom(m, IF current_block_n = -1 THEN kNumBlocks - 1 ELSE current_block_n)

\* A rotation that stays on the page of the active block.
SamePage(current_page) == current_page

\* A rotation that always goes to the first page.
FirstPage(current_page) == 0

\* The page Save erases when the region holds no writable block.
NextPage(current_page) == (current_page + 1) % kNumPages

(***************************************************************************)
(* Persist::LoadLegacy<First, Rest...>: the prior generations are          *)
(* persisters over the same region with the same record size and their own *)
(* datatype_version; chain lists their versions, First first.              *)
(***************************************************************************)
\* The datatype_versions of the prior generations.
PriorVersions == {datatype_version + 1, datatype_version + 2}

\* CrcOf for the prior generations, tabulated once like CrcCache.
LegacyCache ==
    [v \in PriorVersions |->
        [d \in CacheData |-> [sn \in CacheSeqs |-> CrcOf(v, d, sn)]]]

\* Persist::GetCRC in a persister of datatype_version v.
GetCRCOf(v, blk) ==
    IF v \in PriorVersions /\ blk.data \in CacheData /\ blk.sequence_n \in CacheSeqs
    THEN LegacyCache[v][blk.data][blk.sequence_n]
    ELSE GetCRCv(v, blk)

\* The crc test of Reset in a persister of datatype_version v.
CrcOkV(v, blk) == blk.crc = GetCRCOf(v, blk)

\* A prior generation that tests the crc with the seed of the current one.
LegacyStepCurrent(v, best, i, blk) == ResetStep(best, i, blk)

\* ResetStep in a persister of datatype_version v.
LegacyStep(v, best, i, blk) ==
    IF CrcOkV(v, blk) /\ Newer(best.active, blk.sequence_n, best.sequence)
    THEN [active |-> i, sequence |-> blk.sequence_n]
    ELSE best

RECURSIVE LegacyScan(_, _, _, _, _)
\* ResetScan in a persister of datatype_version v.
LegacyScan(v, m, i, best, failAt) ==
    IF i = kNumBlocks
    THEN [active |-> best.active, sequence |-> best.sequence,
          failed |-> FALSE, reads |-> i]
    ELSE IF failAt = i
    THEN [active |-> -1, sequence |-> best.sequence,
          failed |-> TRUE, reads |-> i + 1]
    ELSE LegacyScan(v, m, i + 1,
                    LegacyStep(v, best, i, NvRead(m, BlockLocation(i))), failAt)

\* l_persist.Init() of a new instance of datatype_version v.
LegacyInit(v, m, buf, failAt) ==
    ResetEnd(m, buf, failAt,
             LegacyScan(v, m, 0, [active |-> -1, sequence |-> 0], failAt))

\* static_cast<TData>(l_data) to the one-byte record of the model.
Cast(d) == d % 256

\* The record a LoadLegacy that fails leaves unset.
NoLegacyData == 0 - 1

\* The Read that returns false during a LoadLegacy: Read call at of the Init
\* of generation gen of the chain, if the call gets that far (gen 0: none).
NoLegacyFail == [gen |-> 0, at |-> -1]

\* Persist::LoadLegacy on an instance that has block act active and blk
\* cached.  chain holds the generations that remain and gen is the position
\* of the first of them in the whole list; fail names the generation (gen)
\* whose Init meets a Read that returns false, and that Read (at); reads
\* counts the Read calls so far.
RECURSIVE LoadLegacy(_, _, _, _, _, _, _)

\* The conversion of what the rest of the chain loaded.
Converted(rest) ==
    [rest EXCEPT !.data = IF rest.result = SUCCESS THEN Cast(rest.data)
                          ELSE NoLegacyData]

\* LoadLegacy after l_persist.Init() returned r.
LegacyNext(r, m, chain, gen, fail, reads) ==
    IF r.result # SUCCESS
    THEN [result |-> r.result, data |-> NoLegacyData, reads |-> reads + r.reads]
    ELSE Converted(LoadLegacy(r.active, r.block, m, chain, gen, fail,
                              reads + r.reads))

LoadLegacy(act, blk, m, chain, gen, fail, reads) ==
    IF act # -1
    THEN [result |-> SUCCESS, data |-> blk.data, reads |-> reads]
    ELSE IF chain = <<>>
    THEN [result |-> FAIL_NO_DATA, data |-> NoLegacyData, reads |-> reads]
    ELSE LegacyNext(LegacyInit(Head(chain), m, blk,
                               IF fail.gen = gen THEN fail.at ELSE -1),
                    m, Tail(chain), gen + 1, fail, reads)

(***************************************************************************)
(* State.                                                                  *)
(***************************************************************************)
VARIABLES
    media,            \* the NVMem region: the image of every block
    block_,           \* Persist::block_
    active_block_n_,  \* Persist::active_block_n_ (-1: none)
    sequence_,        \* Persist::sequence_
    live,             \* an instance exists and Init has been called on it
    call,             \* what the last call did: arguments, result, NVMem calls
    run,              \* the calls since the members last matched the medium
    wear,             \* the erases of the latest successive writing Saves
    stamp,            \* for every block, the ordinal of the Save that wrote it
    saves,            \* Saves so far that reached NVMem Erase or Write
    faults            \* driver calls that returned false and losses of power

vars == <<media, block_, active_block_n_, sequence_, live, call, run, wear,
          stamp, saves, faults>>

DataVals == 0..MaxData
NoData == 0 - 1
NoStamp == 0 - kNumBlocks
NoFail == 0 - 1

\* A comparison that never finds the record unchanged.
NeverSame(d) == FALSE

\* Persist::DataIsSame
DataIsSame(d) == active_block_n_ # -1 /\ block_.data = d

\* A Load that hands out the sequence number in place of the record.
LoadableSequence(act, blk) == IF act = -1 THEN NoData ELSE blk.sequence_n

\* What Load hands out: the cached record, or NoData with FAIL_NO_DATA.
Loadable(act, blk) == IF act = -1 THEN NoData ELSE blk.data

\* The block Save encodes for record d and sequence number sn.
Encode(d, sn) ==
    MkBlock(d, sn, GetCRC(MkBlock(d, sn, 0, FillPadding)), FillPadding)

\* The decisions of Save(d) between the short-circuit test and the Write,
\* nwb being the outcome of NextWritableBlock: which block is written, with
\* which sequence number, after which Erase.
PlanFor(d, nwb) ==
    LET erase == nwb.block = -1
        whole == nwb.block = -1 /\ active_block_n_ = -1
        next_page == NextPage(active_block_n_ \div kBlocksPerPage)
        next_block == IF nwb.block # -1 THEN nwb.block
                      ELSE IF active_block_n_ = -1 THEN 0
                      ELSE next_page * kBlocksPerPage
        sn == IF whole THEN 0 ELSE (sequence_ + 1) % Two16
    IN  [erase      |-> erase,
         eraseLoc   |-> IF ~erase THEN -1
                        ELSE IF whole THEN 0 ELSE next_page * kPageSize,
         eraseSize  |-> IF ~erase THEN 0
                        ELSE IF whole THEN kNumPages * kPageSize ELSE kPageSize,
         next_block |-> next_block,
         location   |-> BlockLocation(next_block),
         sequence   |-> sn,
         block      |-> Encode(d, sn),
         probes     |-> nwb.probes]

SavePlan(d) == PlanFor(d, NextWritableBlock(media, active_block_n_))

\* The medium after the Erase of plan p, if it has one.
Erased(p) ==
    IF p.erase THEN NvErase(media, p.eraseLoc, p.eraseSize) ELSE media

\* The pages an Erase(location, size) covers.
PagesIn(location, size) == {PageOf(i) : i \in BlocksIn(location, size)}

\* The members of an instance that does not exist (before construction and
\* Init, and after a loss of power): no call but Init follows, and Init
\* reads none of them.
NoBlock == ErasedBlock

\* No successful Save yet in this power cycle.
NoSequence == 0 - 1

\* The record of one call.
\*   lastOk: when the call starts, sequence_ as the latest Save that returned
\*   SUCCESS left it, if that Save ran in this power cycle and after the
\*   latest Init (NoSequence: no such Save)
\*   fault: "none", "erase" (Erase returned false), "write" (Write returned
\*   false), "read" (a Read returned false), "power" (power lost in the call)
\*   c: the NVMem calls made; pre...: the state the call started in.
Call(op, d, result, fault, c) ==
    [op |-> op, d |-> d, result |-> result, fault |-> fault,
     reads |-> c.reads, probes |-> c.probes, erases |-> c.erases,
     writes |-> c.writes, eraseLoc |-> c.eraseLoc, eraseSize |-> c.eraseSize,
     writeLoc |-> c.writeLoc, landing |-> c.landing,
     midImage |-> c.midImage, expect |-> c.expect, chain |-> c.chain,
     fail |-> c.fail, target |-> c.target,
     preActive |-> active_block_n_, preSequence |-> sequence_,
     preLoad |-> Loadable(active_block_n_, block_), preSynced |-> run.synced,
     preImage |-> IF active_block_n_ = -1 THEN NoBlock
                  ELSE media[active_block_n_],
     lastOk |-> IF fault = "power" \/ op = "Init" THEN NoSequence
                ELSE IF call.op = "Save" /\ call.result = SUCCESS THEN sequence_
                ELSE call.lastOk]

\* No NVMem call.
\*   chain: at LoadLegacy, the datatype_versions of the prior generations
\*   fail: at LoadLegacy, the Read that is set to return false
\*   target: the image of the block a Write goes to, when it is issued
\*   landing: what a Write that failed or was cut left of its target
\*   midImage: the image of the block active at the start, after the Erase
\*   expect: at Init, the record the Saves before it should have made durable
NoNv == [reads |-> 0, probes |-> 0, erases |-> 0, writes |-> 0, eraseLoc |-> -1,
         eraseSize |-> 0, writeLoc |-> -1, landing |-> "none",
         midImage |-> NoBlock, expect |-> NoData, chain |-> <<>>,
         fail |-> NoLegacyFail, target |-> NoBlock]

\* The NVMem calls of a Save that goes on to its Write whatever its Erase
\* returned.
NvErasingWritten(p, m1) ==
    [NoNv EXCEPT !.probes = p.probes,
                 !.erases = IF p.erase THEN 1 ELSE 0,
                 !.eraseLoc = p.eraseLoc,
                 !.eraseSize = p.eraseSize,
                 !.writes = 1,
                 !.writeLoc = p.location]

\* The NVMem calls of a Save with plan p up to and including its Erase,
\* which left the medium as m1.
NvErasing(p, m1) ==
    [NoNv EXCEPT !.probes = p.probes,
                 !.erases = IF p.erase THEN 1 ELSE 0,
                 !.eraseLoc = p.eraseLoc,
                 !.eraseSize = p.eraseSize,
                 !.midImage = IF active_block_n_ = -1 THEN NoBlock
                              ELSE m1[active_block_n_]]

\* The same with the Write, which left its target as landing says.
NvWriting(p, m1, landing) ==
    [NvErasing(p, m1) EXCEPT !.writes = 1, !.writeLoc = p.location,
                             !.landing = landing,
                             !.target = NvRead(m1, p.location)]

NoRun == [synced |-> FALSE, saved |-> NoData]

(***************************************************************************)
(* The region after k Saves of pairwise differing records to a virgin      *)
(* region, all successful: Save j wrote record RecordOf(j) with sequence   *)
(* number j mod 2^16 to block (j - 1) mod kNumBlocks.                      *)
(***************************************************************************)
RecordOf(j) == j % (MaxData + 1)
\* The Save that wrote block i last, among the first k.
LastSaveOf(k, i) == k - ((((k - 1) % kNumBlocks) - i) % kNumBlocks)
WrittenAfter(k, i) ==
    /\ k > 0
    /\ LastSaveOf(k, i) >= 1
    /\ ~(PageOf(i) = PageOf((k - 1) % kNumBlocks) /\ i > (k - 1) % kNumBlocks)
RegionAfter(k) ==
    [i \in Blocks |->
        IF WrittenAfter(k, i)
        THEN Encode(RecordOf(LastSaveOf(k, i)), LastSaveOf(k, i) % Two16)
        ELSE ErasedBlock]
StampsAfter(k) ==
    [i \in Blocks |-> IF WrittenAfter(k, i) THEN LastSaveOf(k, i) - k ELSE NoStamp]

StartSaves == {0, Filled, NearWrap}

NoCall ==
    [op |-> "none", d |-> NoData, result |-> "none", fault |-> "none",
     reads |-> 0, probes |-> 0, erases |-> 0, writes |-> 0,
     eraseLoc |-> -1, eraseSize |-> 0, writeLoc |-> -1, landing |-> "none",
     midImage |-> NoBlock, expect |-> NoData, chain |-> <<>>,
     fail |-> NoLegacyFail, target |-> NoBlock,
     preActive |-> -1, preSequence |-> 0, preLoad |-> NoData,
     preSynced |-> FALSE, preImage |-> NoBlock, lastOk |-> NoSequence]

\* The state after construction, before Init is called.
Constructed ==
    /\ block_ = NoBlock
    /\ active_block_n_ = -1
    /\ sequence_ = 0
    /\ live = FALSE
    /\ call = NoCall
    /\ run = NoRun
    /\ wear = <<>>
    /\ saves = 0
    /\ faults = 0

Init ==
    /\ \E k \in StartSaves : media = RegionAfter(k) /\ stamp = StampsAfter(k)
    /\ Constructed

(***************************************************************************)
(* Bookkeeping shared by the actions.                                      *)
(***************************************************************************)
\* What an Erase(location, size) that does not run to its end may leave of
\* the blocks of its range.
Parts(location, size) ==
    {part \in [BlocksIn(location, size) -> EraseOutcomes] :
        \A i \in BlocksIn(location, size) : CutEraseOk(media[i], part[i])}

\* The stamps after a call that turned the medium into m2 and, if target is
\* a block, wrote that block as Save number n.
Stamped(m2, target, n) ==
    [i \in Blocks |-> IF i = target THEN n
                      ELSE IF m2[i] # media[i] THEN NoStamp
                      ELSE stamp[i]]

\* Every writable block lies in the page of the active block.
Steady ==
    /\ active_block_n_ # -1
    /\ \A i \in Blocks : NvWritable(media, BlockLocation(i))
                            => PageOf(i) = PageOf(active_block_n_)

\* wear keeps the latest kNumBlocks successive successful writing Saves.
Worn(entry) ==
    IF Len(wear) >= kNumBlocks THEN Append(Tail(wear), entry)
    ELSE Append(wear, entry)

\* The medium and the members after a call.
Becomes(m2, st, blk, act, sn, lv) ==
    /\ media' = m2
    /\ stamp' = st
    /\ block_' = blk
    /\ active_block_n_' = act
    /\ sequence_' = sn
    /\ live' = lv

\* The call leaves the medium and the members as they are.
Same == UNCHANGED <<media, stamp, block_, active_block_n_, sequence_, live>>

\* The bookkeeping after a call.
Noted(c, rn, wr, sv, fl) ==
    /\ call' = c
    /\ run' = rn
    /\ wear' = wr
    /\ saves' = sv
    /\ faults' = fl

(***************************************************************************)
(* Persist::Init: Reset on a new or on the running instance.  failAt is    *)
(* the Read call that returns false (NoFail: none; kNumBlocks: the re-read *)
(* of the active block).                                                   *)
(***************************************************************************)
PersistInit(failAt) ==
    /\ failAt # NoFail => faults < MaxFaults
    /\ \E r \in {Reset(media, block_, failAt)} :
        /\ failAt # NoFail => r.result = FAIL_READ
        /\ Becomes(media, stamp, r.block, r.active, r.sequence, TRUE)
        /\ Noted(Call("Init", NoData, r.result,
                      IF r.result = FAIL_READ THEN "read" ELSE "none",
                      [NoNv EXCEPT !.reads = r.reads,
                                   !.expect = IF run.synced THEN run.saved
                                              ELSE NoData]),
                 [synced |-> r.result = SUCCESS, saved |-> NoData],
                 <<>>, saves, IF failAt # NoFail THEN faults + 1 ELSE faults)

(***************************************************************************)
(* Persist::Load                                                           *)
(***************************************************************************)
Load ==
    /\ live
    /\ Same
    /\ Noted(Call("Load", Loadable(active_block_n_, block_),
                  IF active_block_n_ = -1 THEN FAIL_NO_DATA ELSE SUCCESS,
                  "none", NoNv),
             run, wear, saves, faults)

(***************************************************************************)
(* Persist::Save(d), every NVMem call succeeding.                          *)
(***************************************************************************)
\* The short circuit.
SaveSame(d) ==
    /\ Same
    /\ Noted(Call("Save", d, SUCCESS, "none",
                  [NoNv EXCEPT !.midImage = media[active_block_n_]]),
             [run EXCEPT !.saved = d], <<>>, saves, faults)

\* Allocation, Erase if needed, and Write.
SaveWrite(d) ==
    /\ saves < MaxSaves
    /\ \E p \in {SavePlan(d)} : \E m1 \in {Erased(p)} :
       \E m2 \in {NvWrite(m1, p.location, p.block)} :
        /\ Becomes(m2, Stamped(m2, p.next_block, saves + 1),
                   p.block, p.next_block, p.sequence, live)
        /\ Noted(Call("Save", d, SUCCESS, "none", NvWriting(p, m1, "complete")),
                 [run EXCEPT !.saved = d],
                 Worn([steady |-> Steady,
                       erased |-> PagesIn(p.eraseLoc, p.eraseSize)]),
                 saves + 1, faults)

Save(d) ==
    /\ live
    /\ IF DataIsSame(d) THEN SaveSame(d) ELSE SaveWrite(d)

(***************************************************************************)
(* Persist::Save(d) when Erase returns false, having erased part of its    *)
(* range: part gives what is left of every block of the range.             *)
(***************************************************************************)
SaveEraseFail(d) ==
    /\ live
    /\ ~DataIsSame(d)
    /\ saves < MaxSaves
    /\ faults < MaxFaults
    /\ \E p \in {SavePlan(d)} :
        /\ p.erase
        /\ \E part \in Parts(p.eraseLoc, p.eraseSize) :
           \E m1 \in {NvEraseCut(media, p.eraseLoc, p.eraseSize, part)} :
              /\ Becomes(m1, Stamped(m1, -1, 0), block_, active_block_n_,
                         sequence_, live)
              /\ Noted(Call("Save", d, FAIL_ERASE, "erase", NvErasing(p, m1)),
                       NoRun, <<>>, saves + 1, faults + 1)

(***************************************************************************)
(* Persist::Save(d) when Write returns false, leaving the target block as  *)
(* landing says; Reset follows, its Read call failAt returning false.      *)
(***************************************************************************)
SaveWriteFail(d, landing, failAt) ==
    /\ live
    /\ ~DataIsSame(d)
    /\ saves < MaxSaves
    /\ faults + (IF failAt = NoFail THEN 1 ELSE 2) <= MaxFaults
    /\ \E p \in {SavePlan(d)} : \E m1 \in {Erased(p)} :
       \E m2 \in {NvWriteCut(m1, p.location, p.block, landing)} :
       \E r \in {Reset(m2, p.block, failAt)} :
        /\ failAt # NoFail => r.result = FAIL_READ
        /\ landing = "torn" => ~CrcOk(TornImage(p.block))
        /\ Becomes(m2,
                   Stamped(m2, IF landing = "none" THEN -1 ELSE p.next_block,
                           saves + 1),
                   r.block, r.active, r.sequence, live)
        /\ Noted(Call("Save", d, FAIL_WRITE,
                      IF r.result = FAIL_READ THEN "read" ELSE "write",
                      [NvWriting(p, m1, landing) EXCEPT !.reads = r.reads]),
                 [synced |-> r.result = SUCCESS, saved |-> NoData],
                 <<>>, saves + 1, faults + (IF failAt = NoFail THEN 1 ELSE 2))

(***************************************************************************)
(* Power is lost inside Save(d), during the Erase: part gives what is left *)
(* of every block of the range.                                            *)
(***************************************************************************)
SavePowerLossErase(d) ==
    /\ live
    /\ ~DataIsSame(d)
    /\ saves < MaxSaves
    /\ faults < MaxFaults
    /\ \E p \in {SavePlan(d)} :
        /\ p.erase
        /\ \E part \in Parts(p.eraseLoc, p.eraseSize) :
           \E m1 \in {NvEraseCut(media, p.eraseLoc, p.eraseSize, part)} :
              /\ Becomes(m1, Stamped(m1, -1, 0), NoBlock, -1, 0, FALSE)
              /\ Noted(Call("Save", d, "none", "power", NvErasing(p, m1)),
                       NoRun, <<>>, saves + 1, faults + 1)

(***************************************************************************)
(* Power is lost inside Save(d), after the Erase (if any) and before the   *)
(* Write returns: landing gives what is left of the target block.          *)
(***************************************************************************)
SavePowerLossWrite(d, landing) ==
    /\ live
    /\ ~DataIsSame(d)
    /\ saves < MaxSaves
    /\ faults < MaxFaults
    /\ \E p \in {SavePlan(d)} : \E m1 \in {Erased(p)} :
       \E m2 \in {NvWriteCut(m1, p.location, p.block, landing)} :
        /\ landing = "torn" => ~CrcOk(TornImage(p.block))
        /\ Becomes(m2,
                   Stamped(m2, IF landing = "none" THEN -1 ELSE p.next_block,
                           saves + 1),
                   NoBlock, -1, 0, FALSE)
        /\ Noted(Call("Save", d, "none", "power", NvWriting(p, m1, landing)),
                 NoRun, <<>>, saves + 1, faults + 1)

\* The Read calls of Reset that may fail: the scan's and the re-read.
Reads == 0..kNumBlocks

\* The calls of the public interface, the driver succeeding.
Calls ==
    \/ \E failAt \in {NoFail} : PersistInit(failAt)
    \/ Load
    \/ \E d \in DataVals : Save(d)

\* Power is lost inside a Save.
PowerLoss ==
    \/ \E d \in DataVals : SavePowerLossErase(d)
    \/ \E d \in DataVals, landing \in WriteOutcomes : SavePowerLossWrite(d, landing)

\* The driver returns false from a Read, an Erase or a Write.
Failures ==
    \/ \E failAt \in Reads : PersistInit(failAt)
    \/ \E d \in DataVals : SaveEraseFail(d)
    \/ \E d \in DataVals, landing \in WriteOutcomes, failAt \in Reads \cup {NoFail} :
          SaveWriteFail(d, landing, failAt)

Next == Calls \/ PowerLoss \/ Failures

Spec == Init /\ [][Next]_vars

(***************************************************************************)
(* Init and Load on a region of arbitrary content: every block holds one   *)
(* of ScanImages, among them erased blocks, CRC-valid blocks below and     *)
(* across the wrap of the sequence number, a block without its crc and a   *)
(* block whose crc was computed for another datatype_version.              *)
(***************************************************************************)
ScanData == 0..1
ScanSeqs == {0, 1, kNumBlocks, TSequenceNumMax}
ScanImages ==
    {ErasedBlock}
        \cup {Encode(d, sn) : d \in ScanData, sn \in ScanSeqs}
        \cup {TornImage(Encode(1, 2))}
        \cup {MkBlock(0, 1, CrcOf(datatype_version + 1, 0, 1), FillPadding)}

InitScan ==
    /\ media \in [Blocks -> ScanImages]
    /\ stamp = [i \in Blocks |-> NoStamp]
    /\ Constructed

NextScan ==
    \/ \E failAt \in Reads \cup {NoFail} : PersistInit(failAt)
    \/ Load

SpecScan == InitScan /\ [][NextScan]_vars

(***************************************************************************)
(* Saves that all succeed, and between two runs of the program the         *)
(* corruption of a CRC-valid block: its crc or its record changes on the   *)
(* medium, the instance is gone and Init follows.                          *)
(***************************************************************************)
CorruptImages(img) ==
    {[img EXCEPT !.crc = (img.crc + 1) % Two16],
     [img EXCEPT !.data = (img.data + 1) % 256]}

Corrupt(i) ==
    /\ CrcOk(media[i])
    /\ faults < MaxFaults
    /\ \E img \in CorruptImages(media[i]) : \E m2 \in {[media EXCEPT ![i] = img]} :
        /\ ~CrcOk(img)
        /\ Becomes(m2, Stamped(m2, -1, 0), NoBlock, -1, 0, FALSE)
        /\ Noted([NoCall EXCEPT !.op = "Corrupt"], NoRun, <<>>, saves, faults + 1)

NextCorrupt ==
    \/ Calls
    \/ \E i \in Blocks : Corrupt(i)

SpecCorrupt == Init /\ [][NextCorrupt]_vars

(***************************************************************************)
(* Saves that all succeed, from the region after any number of Saves up to *)
(* two rounds of the region and from the regions of StartSaves.            *)
(***************************************************************************)
WearStarts == (0..(2 * kNumBlocks + 1)) \cup StartSaves

InitWear ==
    /\ \E k \in WearStarts : media = RegionAfter(k) /\ stamp = StampsAfter(k)
    /\ Constructed

SpecWear == InitWear /\ [][Calls]_vars

(***************************************************************************)
(* Persist::LoadLegacy<First, Rest...> on a region that holds blocks of    *)
(* the current and of two prior generations.                               *)
(***************************************************************************)
\* The call LoadLegacy<chain...>; the Read that fail names returns false
\* if the call issues it.
LoadLegacyCall(chain, fail) ==
    /\ live
    /\ fail.gen # 0 => faults < MaxFaults /\ fail.gen <= Len(chain)
    /\ \E r \in {LoadLegacy(active_block_n_, block_, media, chain, 1, fail, 0)} :
        /\ Same
        /\ Noted(Call("LoadLegacy", r.data, r.result,
                      IF r.result = FAIL_READ THEN "read" ELSE "none",
                      [NoNv EXCEPT !.reads = r.reads, !.chain = chain,
                                   !.fail = fail]),
                 run, wear, saves,
                 IF r.result = FAIL_READ THEN faults + 1 ELSE faults)

\* The type lists First, Rest... of the calls.
Chains ==
    {<<>>} \cup {<<v>> : v \in PriorVersions}
           \cup {<<v, w>> : v \in PriorVersions, w \in PriorVersions}
\* The Reads of an Init that fail: the first and the last of the scan, and
\* the re-read of the active block.
LegacyReads == {0, kNumBlocks - 1, kNumBlocks}
LegacyFails ==
    {NoLegacyFail} \cup {[gen |-> g, at |-> a] : g \in 1..2, a \in LegacyReads}

\* The block a persister of datatype_version v encodes.
EncodeV(v, d, sn) == MkBlock(d, sn, CrcOf(v, d, sn), FillPadding)

LegacyImages ==
    {ErasedBlock, Encode(0, 1), TornImage(Encode(1, 2))}
        \cup {EncodeV(datatype_version + 1, d, d) : d \in 1..2}
        \cup {EncodeV(datatype_version + 2, 3, 1)}

InitLegacy ==
    /\ media \in [Blocks -> LegacyImages]
    /\ stamp = [i \in Blocks |-> NoStamp]
    /\ Constructed

NextLegacy ==
    \/ \E failAt \in {NoFail, kNumBlocks} : PersistInit(failAt)
    \/ Load
    \/ \E chain \in Chains, fail \in LegacyFails : LoadLegacyCall(chain, fail)

SpecLegacy == InitLegacy /\ [][NextLegacy]_vars

(***************************************************************************)
(* Two persisters of different datatype_version over one region: the       *)
(* region holds blocks that a persister of some version of Versions saved, *)
(* the current persister and, through LoadLegacy<P>, a persister of a      *)
(* version of Versions read it.                                            *)
(***************************************************************************)
AllVersions == 0..255
Versions == {0, 2, 3, 128, 254, 255}
VersionData == 0..1
VersionSeqs == {1, 2, TSequenceNumMax}

\* The crc of the blocks of every datatype_version, computed once.
VersionCrc ==
    [v \in AllVersions |->
        [d \in VersionData |-> [sn \in VersionSeqs |-> CrcOf(v, d, sn)]]]

\* The blocks a persister of datatype_version v saves.
VersionBlocks(v) ==
    {MkBlock(d, sn, VersionCrc[v][d][sn], FillPadding) :
        d \in VersionData, sn \in VersionSeqs}

InitVersion ==
    /\ \E v \in Versions :
          /\ media \in [Blocks -> {ErasedBlock} \cup VersionBlocks(v)]
          /\ \E i \in Blocks : media[i] # ErasedBlock
    /\ stamp = [i \in Blocks |-> NoStamp]
    /\ Constructed

NextVersion ==
    \/ \E failAt \in {NoFail} : PersistInit(failAt)
    \/ Load
    \/ \E w \in Versions : LoadLegacyCall(<<w>>, NoLegacyFail)

SpecVersion == InitVersion /\ [][NextVersion]_vars

(***************************************************************************)
(* The geometry of Persist for any configuration g: sizeof(TData) (record), *)
(* NVMem::kSize (size), NVMem::kWriteGranularity (write) and               *)
(* NVMem::kEraseGranularity (erase); and the locations and sizes that Save  *)
(* hands to Write and Erase in that configuration.                         *)
(***************************************************************************)
BlockSizeOf(g) ==
    g.record + SizeofTSequenceNum + SizeofTCRC
        + PadSize(g.record + SizeofTSequenceNum + SizeofTCRC, g.write)
PageSizeOf(g) == BlockSizeOf(g) + PadSize(BlockSizeOf(g), g.erase)
BlocksPerPageOf(g) == PageSizeOf(g) \div BlockSizeOf(g)
NumBlocksOf(g) ==
    Min((g.size \div PageSizeOf(g)) * BlocksPerPageOf(g),
        TSequenceNumMax \div 2 + 1)
NumPagesOf(g) == (NumBlocksOf(g) + BlocksPerPageOf(g) - 1) \div BlocksPerPageOf(g)

\* Persist::BlockLocation in configuration g.
BlockLocationOf(g, block_n) ==
    (block_n \div BlocksPerPageOf(g)) * PageSizeOf(g)
        + (block_n - (block_n \div BlocksPerPageOf(g)) * BlocksPerPageOf(g))
            * BlockSizeOf(g)

\* The static assertions of Persist (assert_fault_tolerant = true).
Accepted(g) ==
    /\ g.erase <= g.size
    /\ g.write <= g.size
    /\ BlocksPerPageOf(g) > 0
    /\ NumPagesOf(g) > 0
    /\ NumBlocksOf(g) > 0
    /\ NumPagesOf(g) >= 2

MaxRecord == 3
Granularities == {1, 2, 4, 8, 12}
RegionSizes == {16, 24, 32, 48}
Configurations ==
    {g \in [record : 1..MaxRecord, size : RegionSizes,
            write : Granularities, erase : Granularities] : Accepted(g)}

\* The Write of Save to block block_n in configuration g.
WriteOf(g, block_n) ==
    /\ call' = [op |-> "Write", g |-> g,
                location |-> BlockLocationOf(g, block_n),
                size |-> BlockSizeOf(g)]
    /\ UNCHANGED <<media, block_, active_block_n_, sequence_, live, run, wear,
                   stamp, saves, faults>>

\* The Erase of Save for a page rotation to next_page in configuration g.
ErasePageOf(g, next_page) ==
    /\ call' = [op |-> "Erase", g |-> g,
                location |-> next_page * PageSizeOf(g),
                size |-> PageSizeOf(g)]
    /\ UNCHANGED <<media, block_, active_block_n_, sequence_, live, run, wear,
                   stamp, saves, faults>>

\* The Erase of Save for the whole region in configuration g.
EraseRegionOf(g) ==
    /\ call' = [op |-> "Erase", g |-> g,
                location |-> 0,
                size |-> NumPagesOf(g) * PageSizeOf(g)]
    /\ UNCHANGED <<media, block_, active_block_n_, sequence_, live, run, wear,
                   stamp, saves, faults>>

InitGeometry ==
    /\ media = RegionAfter(0) /\ stamp = StampsAfter(0)
    /\ Constructed

NextGeometry ==
    \/ \E g \in Configurations : \E block_n \in 0..(NumBlocksOf(g) - 1) :
          WriteOf(g, block_n)
    \/ \E g \in Configurations : \E next_page \in 0..(NumPagesOf(g) - 1) :
          ErasePageOf(g, next_page)
    \/ \E g \in Configurations : EraseRegionOf(g)

SpecGeometry == InitGeometry /\ [][NextGeometry]_vars

(***************************************************************************)
(* Saves that all succeed on a region that failed and cut Writes and       *)
(* Erases have left: every block is erased, or holds the block that Save   *)
(* number i + 1 wrote to block i of a virgin region, or what a cut Write   *)
(* left of it.                                                             *)
(***************************************************************************)
AllocImages(i) ==
    {ErasedBlock, Encode(RecordOf(i + 1), i + 1),
     TornImage(Encode(RecordOf(i + 1), i + 1))}

InitAlloc ==
    /\ media \in [Blocks -> UNION {AllocImages(i) : i \in Blocks}]
    /\ \A i \in Blocks : media[i] \in AllocImages(i)
    /\ stamp = [i \in Blocks |-> IF CrcOk(media[i]) THEN i + 1 - kNumBlocks
                                 ELSE NoStamp]
    /\ Constructed

SpecAlloc == InitAlloc /\ [][Calls]_vars

(***************************************************************************)
(* The acceptance test of Reset as a function of its inputs: a candidate   *)
(* sn against a best candidate sequence, for several kNumBlocks.           *)
(***************************************************************************)
SequenceSamples ==
    (0..5) \cup (32766..32770) \cup ((TSequenceNumMax - 5)..TSequenceNumMax)
NumBlocksSamples == {1, 2, 4, 5, (TSequenceNumMax \div 2) + 1}

\* The if of Reset for a CRC-valid block of sequence number sn when block 0
\* is the best so far with sequence number seq; reverse is the same test
\* with the two sequence numbers exchanged.
Compare(num_blocks, sn, seq) ==
    /\ call' = [op |-> "Compare", num_blocks |-> num_blocks,
                sn |-> sn, sequence |-> seq,
                accepted |-> NewerIn(num_blocks, 0, sn, seq),
                reverse |-> NewerIn(num_blocks, 0, seq, sn)]
    /\ UNCHANGED <<media, block_, active_block_n_, sequence_, live, run, wear,
                   stamp, saves, faults>>

InitCompare ==
    /\ media = RegionAfter(0) /\ stamp = StampsAfter(0)
    /\ Constructed

NextCompare ==
    \E num_blocks \in NumBlocksSamples : \E sn, seq \in SequenceSamples :
        Compare(num_blocks, sn, seq)

SpecCompare == InitCompare /\ [][NextCompare]_vars

\* The driver never returns false: the only faults are losses of power.
NextPower == Calls \/ PowerLoss

SpecPower == Init /\ [][NextPower]_vars

(***************************************************************************)
(* Claims.                                                                 *)
(***************************************************************************)
\* C1: durability across re-initialisation.  When Init follows Saves that
\* all returned SUCCESS (every Read, Write and Erase succeeding) on an
\* instance whose last Reset succeeded, Init returns SUCCESS and Load yields
\* the record of the last of those Saves (call.expect).
C1_Durable ==
    (call.op = "Init" /\ call.fault = "none" /\ call.expect # NoData)
        => /\ call.result = SUCCESS
           /\ Loadable(active_block_n_, block_) = call.expect

\* C2: atomic commit under power loss.  When power is lost inside Save(d),
\* the next Init followed by Load yields the record that was active before
\* that Save (NoData, that is FAIL_NO_DATA, if none was) or d.
C2_Atomic ==
    [][(/\ call.op = "Save" /\ call.fault = "power"
        /\ call'.op = "Init" /\ call'.fault = "none")
       => Loadable(active_block_n_', block_') \in {call.preLoad, call.d}]_vars

\* C3: a Save that starts with a block active erases no range that covers
\* the page of that block and writes to no location of that block, so the
\* image of that block is the same before the Erase, after the Erase and
\* after the Write.
C3_ActiveIntact ==
    (call.op = "Save" /\ call.preActive # -1)
        => /\ call.erases > 0 =>
                PageOf(call.preActive) \notin PagesIn(call.eraseLoc, call.eraseSize)
           /\ call.writes > 0 => call.writeLoc # BlockLocation(call.preActive)
           /\ call.midImage = call.preImage
           /\ media[call.preActive] = call.preImage

\* A Save that started with a block active erased a page and wrote a block.
C3_Witness ==
    /\ call.op = "Save" /\ call.result = SUCCESS
    /\ call.preActive # -1
    /\ call.erases = 1 /\ call.writes = 1

\* C4: postcondition of Init on arbitrary media.  When Init returns
\* SUCCESS, either no block is active and no block of the region is
\* CRC-valid, or the active block is CRC-valid on the medium, sequence_ is
\* its sequence number and the cached block is its image; what Load then
\* returns is FAIL_NO_DATA or the record of a CRC-valid block.
C4_InitPost ==
    /\ (call.op = "Init" /\ call.result = SUCCESS)
         => \/ /\ active_block_n_ = -1
               /\ \A i \in Blocks : media[i].crc # GetCRC(media[i])
            \/ /\ active_block_n_ \in Blocks
               /\ media[active_block_n_].crc = GetCRC(media[active_block_n_])
               /\ sequence_ = media[active_block_n_].sequence_n
               /\ block_ = media[active_block_n_]
    /\ call.op = "Load"
         => \/ call.result = FAIL_NO_DATA
            \/ /\ call.result = SUCCESS
               /\ \E i \in Blocks : /\ media[i].crc = GetCRC(media[i])
                                    /\ media[i].data = call.d

\* Init chose a block that is not the last of the region, among several
\* CRC-valid ones, next to a block that is not CRC-valid.
C4_Witness ==
    /\ call.op = "Init" /\ call.result = SUCCESS
    /\ active_block_n_ \in Blocks /\ active_block_n_ # kNumBlocks - 1
    /\ \E i \in Blocks : i # active_block_n_ /\ CrcOk(media[i])
    /\ \E i \in Blocks : media[i] # ErasedBlock /\ ~CrcOk(media[i])

\* C5: recovery selects the most recent surviving block.  After successful
\* Saves and the corruption of some blocks, Init makes active the CRC-valid
\* block that was written last (none if none is left), wherever it lies in
\* the scan order; its sequence number is ahead of that of every other
\* CRC-valid block under the comparison modulo 2^16.
C5_MostRecent ==
    (call.op = "Init" /\ call.result = SUCCESS)
        => IF \A i \in Blocks : ~CrcOk(media[i])
           THEN active_block_n_ = -1
           ELSE /\ active_block_n_ \in Blocks
                /\ CrcOk(media[active_block_n_])
                /\ \A j \in Blocks \ {active_block_n_} :
                     CrcOk(media[j])
                       => /\ stamp[j] < stamp[active_block_n_]
                          /\ (sequence_ - media[j].sequence_n) % Two16
                                \in 1..(kNumBlocks - 1)

\* Init chose, across the wrap of the sequence number, a block that comes
\* before another CRC-valid block in the scan order, the block written last
\* being corrupted.
C5_Witness ==
    /\ call.op = "Init" /\ call.result = SUCCESS
    /\ active_block_n_ \in Blocks
    /\ \E j \in Blocks : /\ j > active_block_n_ /\ CrcOk(media[j])
                         /\ media[j].sequence_n > sequence_
    /\ \E j \in Blocks : media[j] # ErasedBlock /\ ~CrcOk(media[j])

\* C6: the short circuit of Save.  A Save(d) that starts with a block active
\* and d as the cached record returns SUCCESS, calls none of Writable, Write,
\* Erase and Read, and leaves active_block_n_, sequence_, block_ and the
\* medium as they are.
C6_ShortCircuit ==
    [][(/\ call'.op = "Save"
        /\ active_block_n_ # -1
        /\ block_.data = call'.d)
       => /\ call'.result = SUCCESS
          /\ call'.probes = 0 /\ call'.reads = 0
          /\ call'.erases = 0 /\ call'.writes = 0
          /\ UNCHANGED <<active_block_n_, sequence_, block_, media>>]_vars

\* A Save of the record that was cached has returned.
C6_Witness ==
    /\ call.op = "Save" /\ call.result = SUCCESS
    /\ call.preActive # -1 /\ call.preLoad = call.d
    /\ call.writes = 0 /\ call.probes = 0

\* C7, as stated: two consecutive calls Save(d); Save(d) issue together at
\* most one Write and no Erase (every NVMem call succeeding).
C7_Original ==
    [][(/\ call.op = "Save" /\ call'.op = "Save" /\ call'.d = call.d
        /\ call.fault = "none" /\ call'.fault = "none")
       => /\ call.writes + call'.writes <= 1
          /\ call.erases + call'.erases = 0]_vars

\* C7, amended: of two consecutive calls Save(d); Save(d) each issues at
\* most one Write and at most one Erase, and when the first returns SUCCESS
\* the second issues no NVMem call, so that together they issue at most one
\* Write and at most one Erase.
C7_Idempotent ==
    [][(call.op = "Save" /\ call'.op = "Save" /\ call'.d = call.d)
       => /\ call.writes <= 1 /\ call.erases <= 1
          /\ call'.writes <= 1 /\ call'.erases <= 1
          /\ call.result = SUCCESS
               => /\ call'.result = SUCCESS
                  /\ call'.writes = 0 /\ call'.erases = 0
                  /\ call'.probes = 0 /\ call'.reads = 0
                  /\ call.writes + call'.writes <= 1
                  /\ call.erases + call'.erases <= 1]_vars

\* The first of two Saves of one record erased a page and wrote a block,
\* and the second is about to start.
C7_Witness ==
    /\ live
    /\ call.op = "Save" /\ call.result = SUCCESS
    /\ call.erases = 1 /\ call.writes = 1
    /\ DataIsSame(call.d)

\* The pages erased by the Saves of wear, with multiplicity.
ErasesOf(page) == Cardinality({k \in 1..Len(wear) : page \in wear[k].erased})

\* C8, as stated: kNumBlocks successive successful Saves of differing
\* records erase every page exactly once, whatever the state they start in.
C8_Original ==
    Len(wear) = kNumBlocks => \A page \in Pages : ErasesOf(page) = 1

\* C8, amended: kNumBlocks successive successful Saves of differing records
\* that start with a block active and every writable block in the page of
\* the active block erase every page exactly once (kNumPages Erase calls).
C8_WearLevel ==
    (Len(wear) = kNumBlocks /\ wear[1].steady)
        => /\ \A page \in Pages : ErasesOf(page) = 1
           /\ \A k \in 1..Len(wear) : Cardinality(wear[k].erased) <= 1

\* kNumBlocks successive Saves have run from such a state.
C8_Witness ==
    /\ Len(wear) = kNumBlocks
    /\ wear[1].steady
    /\ call.op = "Save" /\ call.result = SUCCESS

\* C9: absence of data is reported by Load.  Init returns SUCCESS whenever
\* its Reads succeed; Load returns FAIL_NO_DATA exactly when no block is
\* active and else SUCCESS with the cached record, calls no NVMem operation
\* and leaves active_block_n_, sequence_, block_ and the medium as they are.
C9_NoData ==
    [][/\ (call'.op = "Init" /\ call'.fault = "none") => call'.result = SUCCESS
       /\ call'.op = "Load"
            => /\ call'.result = FAIL_NO_DATA <=> active_block_n_ = -1
               /\ active_block_n_ # -1
                    => call'.result = SUCCESS /\ call'.d = block_.data
               /\ call'.probes = 0 /\ call'.reads = 0
               /\ call'.erases = 0 /\ call'.writes = 0
               /\ UNCHANGED <<active_block_n_, sequence_, block_, media>>]_vars

\* Load has reported FAIL_NO_DATA after an Init that returned SUCCESS on a
\* region of which every block is written and none is CRC-valid.
C9_Witness ==
    /\ call.op = "Load" /\ call.result = FAIL_NO_DATA
    /\ run.synced
    /\ \A i \in Blocks : media[i] # ErasedBlock /\ ~CrcOk(media[i])

\* C10: handling of a failed Write.  A Save whose Write returns false
\* returns FAIL_WRITE with the members such that no block is active or the
\* active block is CRC-valid on the medium with sequence_ as its sequence
\* number and block_ as its image; when the Write left its target erased or
\* CRC-invalid and the Reads of the rescan succeeded, the block that was
\* active before the Save is active with its sequence number and record.
C10_WriteFailure ==
    (call.op = "Save" /\ call.fault \in {"write", "read"} /\ call.writes = 1)
        => /\ call.result = FAIL_WRITE
           /\ \/ active_block_n_ = -1
              \/ /\ CrcOk(media[active_block_n_])
                 /\ sequence_ = media[active_block_n_].sequence_n
                 /\ block_ = media[active_block_n_]
           /\ (/\ call.fault = "write"
               /\ call.landing \in {"none", "torn"}
               /\ call.preSynced /\ call.preActive # -1)
                => /\ active_block_n_ = call.preActive
                   /\ sequence_ = call.preSequence
                   /\ Loadable(active_block_n_, block_) = call.preLoad

\* A persister of datatype_version v finds a CRC-valid block in the region.
GenFinds(v) == \E i \in Blocks : CrcOkV(v, media[i])

\* The records of the blocks that are CRC-valid for datatype_version v.
GenRecords(v) == {Cast(media[i].data) : i \in {j \in Blocks : CrcOkV(v, media[j])}}

\* The position in chain of the first generation that finds a block (0: none).
FirstFinder(chain) ==
    IF \A k \in 1..Len(chain) : ~GenFinds(chain[k]) THEN 0
    ELSE CHOOSE k \in 1..Len(chain) :
            /\ GenFinds(chain[k])
            /\ \A j \in 1..(k - 1) : ~GenFinds(chain[j])

\* The Read that fail names is issued by LoadLegacy<chain...>: no block is
\* active, no generation before fail.gen finds a block, and the Read is one
\* of the scan or, a block found, the re-read of it.
FailReached(chain, fail) ==
    /\ active_block_n_ = -1
    /\ fail.gen \in 1..Len(chain)
    /\ \A j \in 1..(fail.gen - 1) : ~GenFinds(chain[j])
    /\ fail.at \in 0..kNumBlocks
    /\ fail.at = kNumBlocks => GenFinds(chain[fail.gen])

\* C11: the legacy chain.  LoadLegacy returns SUCCESS with the record of the
\* first generation, in the order current, P1, ..., Pk, that finds a
\* CRC-valid block, FAIL_NO_DATA exactly when none does, and with an empty
\* list what Load returns; when a Read of the Init of a prior generation
\* returns false the call returns FAIL_READ and no later generation is
\* tried, and it returns FAIL_READ in no other case; the call issues no Write and no Erase and leaves
\* active_block_n_, sequence_ and block_ of the calling instance as they are.
C11_LegacyChain ==
    [][call'.op = "LoadLegacy"
       => /\ UNCHANGED <<active_block_n_, sequence_, block_, media>>
          /\ call'.writes = 0 /\ call'.erases = 0
          /\ FailReached(call'.chain, call'.fail)
               <=> call'.result = FAIL_READ
          /\ FailReached(call'.chain, call'.fail)
               => /\ call'.d = NoLegacyData
                  /\ call'.reads
                        <= (call'.fail.gen - 1) * kNumBlocks + call'.fail.at + 1
          /\ call'.chain = <<>>
               => /\ call'.result = IF active_block_n_ = -1 THEN FAIL_NO_DATA
                                    ELSE SUCCESS
                  /\ call'.d = Loadable(active_block_n_, block_)
          /\ ~FailReached(call'.chain, call'.fail)
               => IF active_block_n_ # -1
                  THEN call'.result = SUCCESS /\ call'.d = block_.data
                  ELSE IF FirstFinder(call'.chain) = 0
                  THEN call'.result = FAIL_NO_DATA
                  ELSE /\ call'.result = SUCCESS
                       /\ call'.d \in GenRecords(call'.chain[FirstFinder(call'.chain)])]_vars

\* LoadLegacy with two prior generations has returned FAIL_READ: no block
\* was active, a Read of the Init of the first generation returned false,
\* and the region holds a block that the second generation would have
\* found.
C11_Witness ==
    /\ call.op = "LoadLegacy" /\ call.result = FAIL_READ
    /\ call.preActive = -1 /\ run.synced
    /\ Len(call.chain) = 2
    /\ call.fail.gen = 1
    /\ GenFinds(call.chain[2])
    /\ call.d = NoLegacyData

\* The seeds and the crcs of two different datatype_versions differ, for
\* the same record and sequence number.
SeedsIsolate ==
    \A v \in AllVersions, w \in AllVersions :
        v # w => /\ CrcSeed(v) # CrcSeed(w)
                 /\ \A d \in VersionData, sn \in VersionSeqs :
                        VersionCrc[v][d][sn] # VersionCrc[w][d][sn]

\* C12: isolation of schema versions.  A block saved by a persister of
\* datatype_version v fails the crc test of a persister of another version
\* w; on a region that holds only blocks of version v, Init of the persister
\* of version w returns SUCCESS and its Load returns FAIL_NO_DATA.
C12_Isolation ==
    /\ SeedsIsolate
    /\ \A i \in Blocks : media[i] # ErasedBlock => ~CrcOk(media[i])
    /\ call.op = "Init" => call.result = SUCCESS /\ active_block_n_ = -1
    /\ call.op = "Load" => call.result = FAIL_NO_DATA
    /\ call.op = "LoadLegacy"
         => /\ (\E i \in Blocks : media[i] \in VersionBlocks(call.chain[1]))
                  <=> call.result = SUCCESS
            /\ (\A i \in Blocks : media[i] \notin VersionBlocks(call.chain[1]))
                  <=> call.result = FAIL_NO_DATA

\* A persister of another version than the one that filled the region has
\* run Init and Load on it and reported FAIL_NO_DATA.
C12_Witness ==
    /\ call.op = "LoadLegacy" /\ call.result = FAIL_NO_DATA
    /\ run.synced
    /\ \A i \in Blocks : media[i] # ErasedBlock
    /\ \E v \in Versions \ {call.chain[1]} :
          \A i \in Blocks : media[i] \in VersionBlocks(v)

\* C13: the alignment contract of the driver.  In every accepted
\* configuration the location and the size of every Write are multiples of
\* kWriteGranularity and those of every Erase multiples of
\* kEraseGranularity.
C13_Aligned ==
    /\ call.op = "Write"
         => /\ call.location % call.g.write = 0
            /\ call.size % call.g.write = 0
    /\ call.op = "Erase"
         => /\ call.location % call.g.erase = 0
            /\ call.size % call.g.erase = 0

\* C14: monotonicity of the sequence.  When a Save returns SUCCESS after an
\* earlier Save of the same power cycle did, with no call between them but
\* Loads and Saves that failed, sequence_ is equal to what the earlier one
\* left, or ahead of it modulo 2^16.
C14_Monotonic ==
    (call.op = "Save" /\ call.result = SUCCESS /\ call.lastOk # NoSequence)
        => (sequence_ - call.lastOk) % Two16 < Two16 \div 2

\* C15, as stated: no block receives two Writes between two erasures of its
\* page; here for the Writes of two consecutive Saves, the second of which
\* issues no Erase.
C15_Original ==
    [][(/\ call.op = "Save" /\ call.writes = 1
        /\ call'.op = "Save" /\ call'.writes = 1 /\ call'.erases = 0)
       => call'.writeLoc # call.writeLoc]_vars

\* C15, amended: every Write that Save issues goes to a block that is in
\* the erased state when the Write is issued: no Write has changed it since
\* the last Erase of its page (a Write that returned false or was cut before
\* a byte reached the block may be followed by a Write to the same block).
C15_WriteOnce ==
    (call.op = "Save" /\ call.writes > 0)
        => /\ call.target = ErasedBlock
           /\ call.writes = 1
           /\ call.erases > 0
                => PageOf(BlockAt(call.writeLoc))
                      \in PagesIn(call.eraseLoc, call.eraseSize)

\* A Save has written, without an Erase, to a block of a page of which
\* another block holds a CRC-valid block or what a cut Write left.
C15_Witness ==
    /\ call.op = "Save" /\ call.result = SUCCESS
    /\ call.writes = 1 /\ call.erases = 0
    /\ faults > 0
    /\ \E i \in Blocks : /\ i # active_block_n_
                         /\ PageOf(i) = PageOf(active_block_n_)
                         /\ media[i] # ErasedBlock

\* Some block of the region is writable.
AnyWritable == \E i \in Blocks : NvWritable(media, BlockLocation(i))

\* The first writable block in the circular order that starts at block start.
FirstWritableFrom(start) ==
    CHOOSE i \in Blocks :
        /\ NvWritable(media, BlockLocation(i))
        /\ \A j \in Blocks :
               NvWritable(media, BlockLocation(j))
                   => (i - start) % kNumBlocks <= (j - start) % kNumBlocks

\* C16: block allocation.  A Save that allocates writes, without an Erase,
\* to the first writable block in the circular order that starts at the
\* successor of the active block (at block 0 when no block is active), and
\* erases only when no block of the region is writable.
C16_Allocation ==
    [][(call'.op = "Save" /\ call'.fault = "none" /\ call'.probes > 0)
       => IF AnyWritable
          THEN /\ call'.erases = 0
               /\ call'.writeLoc =
                    BlockLocation(FirstWritableFrom((active_block_n_ + 1) % kNumBlocks))
          ELSE call'.erases = 1]_vars

\* Saves to a virgin region have filled page 0 with CRC-valid blocks, the
\* last of them active, and nothing else.
PageZeroFilled ==
    /\ live
    /\ active_block_n_ = kBlocksPerPage - 1
    /\ sequence_ = kBlocksPerPage
    /\ \A i \in Blocks :
          IF i < kBlocksPerPage
          THEN CrcOk(media[i]) /\ media[i].sequence_n = i + 1
          ELSE media[i] = ErasedBlock

\* C17, as stated: once Saves to a virgin region have filled page 0, the
\* next Save of another record erases page 1, increments the sequence by
\* one and writes block kBlocksPerPage.
C17_Original ==
    [][(PageZeroFilled /\ call'.op = "Save" /\ call'.writes = 1)
       => /\ call'.erases = 1 /\ call'.eraseLoc = kPageSize
          /\ sequence_' = sequence_ + 1
          /\ active_block_n_' = kBlocksPerPage]_vars

\* C17, amended: that Save issues no Erase (page 1 is still erased),
\* increments the sequence by one and writes block kBlocksPerPage.
C17_Rotation ==
    [][(PageZeroFilled /\ call'.op = "Save" /\ call'.writes = 1)
       => /\ call'.erases = 0
          /\ call'.result = SUCCESS
          /\ sequence_' = sequence_ + 1
          /\ active_block_n_' = kBlocksPerPage
          /\ call'.writeLoc = BlockLocation(kBlocksPerPage)
          /\ media'[kBlocksPerPage] = Encode(call'.d, sequence_ + 1)]_vars

\* The Save that follows the filling of page 0 of a virgin region has run.
C17_Witness ==
    /\ call.op = "Save" /\ call.result = SUCCESS /\ call.writes = 1
    /\ Len(wear) = kBlocksPerPage + 1
    /\ call.preActive = kBlocksPerPage - 1
    /\ call.preSequence = kBlocksPerPage
    /\ active_block_n_ = kBlocksPerPage
    /\ \A i \in Blocks : i > kBlocksPerPage => media[i] = ErasedBlock

\* The distance from b up to a modulo 2^16.
Ahead(a, b) == (a - b) % Two16

\* C18, as stated: the acceptance test of Reset accepts candidate a over
\* best b exactly when (a - b) mod 2^16 lies in (0, kNumBlocks], and of two
\* distinct sequence numbers exactly one is accepted over the other.
C18_Original ==
    call.op = "Compare"
        => /\ call.accepted
                <=> Ahead(call.sn, call.sequence) \in 1..call.num_blocks
           /\ call.sn # call.sequence => (call.accepted # call.reverse)

\* C18, amended: when a is fewer than kNumBlocks values ahead of b modulo
\* 2^16 it is accepted, when it is fewer than kNumBlocks behind it is
\* rejected, when it is kNumBlocks or more away both ways it is accepted
\* exactly when it is the smaller value; an equal value is rejected, and of
\* two distinct sequence numbers exactly one is accepted over the other.
C18_Comparator ==
    call.op = "Compare"
        => /\ Ahead(call.sn, call.sequence) \in 1..(call.num_blocks - 1)
                => call.accepted
           /\ Ahead(call.sequence, call.sn) \in 1..(call.num_blocks - 1)
                => ~call.accepted
           /\ (/\ Ahead(call.sn, call.sequence) >= call.num_blocks
               /\ Ahead(call.sequence, call.sn) >= call.num_blocks)
                => (call.accepted <=> call.sn < call.sequence)
           /\ call.sn = call.sequence => ~call.accepted
           /\ call.sn # call.sequence => (call.accepted # call.reverse)

\* A candidate that wrapped past 2^16 has been accepted over a best that
\* did not.
C18_Witness ==
    /\ call.op = "Compare"
    /\ call.sn < call.sequence
    /\ Ahead(call.sn, call.sequence) \in 1..(call.num_blocks - 1)
    /\ call.accepted /\ ~call.reverse

\* C19: a Save issues at most one Erase and at most one Write, the Erase
\* first: the Write finds its block erased, inside the erased range, and
\* what a successful Write stored is still there when Save returns.  When
\* the Erase returns false, of the whole region or of the next page, Save
\* returns FAIL_ERASE without a Write and active_block_n_, sequence_ and
\* block_ are as before, so that Load gives what it gave before.
C19_EraseFailure ==
    [][call'.op = "Save"
       => /\ call'.erases <= 1 /\ call'.writes <= 1
          /\ (call'.erases = 1 /\ call'.writes = 1)
               => /\ call'.target = ErasedBlock
                  /\ PageOf(BlockAt(call'.writeLoc))
                        \in PagesIn(call'.eraseLoc, call'.eraseSize)
                  /\ call'.result = SUCCESS
                        => media'[BlockAt(call'.writeLoc)]
                              = Encode(call'.d, sequence_')
          /\ call'.fault = "erase" => call'.result = FAIL_ERASE
          /\ call'.result = FAIL_ERASE
               => /\ call'.erases = 1 /\ call'.writes = 0
                  /\ IF active_block_n_ = -1
                     THEN /\ call'.eraseLoc = 0
                          /\ call'.eraseSize = kNumPages * kPageSize
                     ELSE call'.eraseSize = kPageSize
                  /\ active_block_n_' = active_block_n_
                  /\ sequence_' = sequence_
                  /\ block_' = block_
                  /\ live'
                  /\ Loadable(active_block_n_', block_')
                        = Loadable(active_block_n_, block_)]_vars

\* A Save has returned FAIL_ERASE with a record active, its Erase having
\* erased part of the next page.
C19_Witness ==
    /\ call.op = "Save" /\ call.result = FAIL_ERASE
    /\ call.erases = 1 /\ call.writes = 0
    /\ active_block_n_ # -1
    /\ \E i \in BlocksIn(call.eraseLoc, call.eraseSize) :
          media[i] = ErasedBlock

\* The blocks of the region that pass the CRC test.
ValidBlocks == {i \in Blocks : CrcOk(media[i])}

\* The sequence numbers of the blocks of set valid all lie in a run of
\* length consecutive values modulo 2^16.
WithinRun(valid, length) ==
    \/ valid = {}
    \/ \E i \in valid : \A j \in valid :
          (media[j].sequence_n - media[i].sequence_n) % Two16 < length

\* C20: the CRC-valid blocks carry pairwise distinct sequence numbers
\* within one run of consecutive values modulo 2^16 (of kNumBlocks values
\* here, which a region whose blocks are all valid needs; the claim asks
\* for fewer), and a block that is active after Init or a successful Save
\* is the CRC-valid block with the newest of them.
C20_LiveWindow ==
    /\ \A i, j \in ValidBlocks :
          i # j => media[i].sequence_n # media[j].sequence_n
    /\ WithinRun(ValidBlocks, kNumBlocks)
    /\ (/\ call.op \in {"Init", "Save"} /\ call.result = SUCCESS
        /\ live /\ active_block_n_ # -1)
          => /\ active_block_n_ \in ValidBlocks
             /\ sequence_ = media[active_block_n_].sequence_n
             /\ \A j \in ValidBlocks :
                   (sequence_ - media[j].sequence_n) % Two16 < kNumBlocks
====
